---- MODULE Spec2Model ----
(***************************************************************************)
(* Marketplace backend: services, negotiations and reviews over a          *)
(* relational store (PostgreSQL through Prisma).  Every request handler is *)
(* an async function; it runs to its next awaited store call atomically,   *)
(* and handlers of different requests interleave at those calls.  Each     *)
(* action below is one such segment: the awaited store call together with  *)
(* the synchronous checks that follow it up to the next await.             *)
(*                                                                         *)
(* prisma.$transaction(async tx => ...) is an interactive transaction at   *)
(* the store's default isolation (read committed): its writes are kept in  *)
(* the handler's local state until the commit, each statement of it reads  *)
(* the rows committed at that moment plus its own writes, and a row it has *)
(* written is locked against other writers until it ends.  The last        *)
(* statement of every transaction here is the service update; nothing is   *)
(* awaited between it and the commit, so the two form one step.            *)
(***************************************************************************)
EXTENDS Integers, FiniteSets, Sequences, TLC

\* Bounds of the model (not program constants).
MaxServices == 2
MaxNegotiations == 2
MaxReviews == 3
MaxUsers == 4
MaxTokens == 4

\* Rating range of reviewSchema / reviews_rating_range.
MinRating == 1
MaxRating == 5

\* Request slots: the handlers that may be in flight at once.
Procs == {"p1", "p2"}

\* Inputs the requests are drawn from.
RatingInputs == {2, 4, 6}       \* 6 is above MaxRating: a validation error
OfferInputs == {0, 100}         \* 0 is not positive: a validation error
CategoryInputs == {1, 2}        \* category 2 does not exist
NoId == 0                       \* a field the request body omits
RoleInputs == {"CUSTOMER", "VENDOR", "ADMIN", "OWNER"}  \* OWNER is not a role
CommentInputs == {"undefined", "fine"}  \* updateReview; undefined: the body has no comment
NewCommentInputs == {"fine"}            \* createReview
EmailInputs == {"c@x", "n@x", ""}   \* c@x is a user's email; "" is not an email

VARIABLES
    users,          \* users table: id -> role
    emails,         \* users table: id -> email (unique)
    tokens,         \* verified access-token payloads in circulation
    categories,     \* categories table: set of ids
    services,       \* services table: id -> [vendorId, categoryId, avgRating]
    negotiations,   \* negotiations table: id -> [serviceId, customerId, offerPrice, status]
    reviews,        \* reviews table: id -> [serviceId, customerId, rating, comment]
    nextId,         \* SERIAL sequences: [service, negotiation, review]
    pc,             \* per request slot: the segment the handler runs next
    req,            \* per request slot: the request (actor and body)
    loc,            \* per request slot: the handler's local variables
    resp            \* per request slot: the response sent

vars == <<users, emails, tokens, categories, services, negotiations, reviews, nextId, pc, req, loc, resp>>
store == <<users, emails, tokens, categories, services, negotiations, reviews, nextId>>

----------------------------------------------------------------------------
\* Store helpers

\* A table without row id.
Without(table, id) == [i \in DOMAIN table \ {id} |-> table[i]]

\* CascadeService without the cascade.
CascadeService_none(table, sid) == table

\* A table without the rows that reference a deleted service (ON DELETE CASCADE).
CascadeService(table, sid) == [i \in {j \in DOMAIN table : table[j].serviceId # sid} |-> table[i]]

RECURSIVE SumRatings(_, _)
SumRatings(table, ids) ==
    IF ids = {} THEN 0
    ELSE LET i == CHOOSE j \in ids : TRUE
         IN table[i].rating + SumRatings(table, ids \ {i})

\* NUMERIC(3,2): a value kept in hundredths, rounded half away from zero.
\* sum / count is the float AVG the aggregate returns.
ToNumeric2(sum, count) == (200 * sum + count) \div (2 * count)

\* tx.review.aggregate({ where: { serviceId }, _avg, _count }) over a view of
\* the reviews table.
aggregate(view, sid) ==
    LET ids == {i \in DOMAIN view : view[i].serviceId = sid}
    IN [sum |-> SumRatings(view, ids), count |-> Cardinality(ids)]

\* avgRatingData that stores the sum of the ratings, not their mean.
avgRatingData_sum(stats) == IF stats.count = 0 THEN 0 ELSE 100 * stats.sum

\* avgRating: ratingStats._avg.rating || 0 in a response body: the number the
\* aggregate returns, sum / count, kept as a fraction.
avgRatingBody(stats) ==
    IF stats.count = 0 THEN [num |-> 0, den |-> 1] ELSE [num |-> stats.sum, den |-> stats.count]

\* data: { avgRating: ratingStats._avg.rating || 0 } as stored in avg_rating.
avgRatingData(stats) == IF stats.count = 0 THEN 0 ELSE ToNumeric2(stats.sum, stats.count)

----------------------------------------------------------------------------
\* Request slots

NoReq == [op |-> "none", userId |-> NoId, role |-> "none", serviceId |-> NoId, id |-> NoId,
          rating |-> NoId, status |-> "none", offerPrice |-> 0, categoryId |-> NoId,
          newRole |-> "none", email |-> "none", token |-> "none", expired |-> FALSE,
          comment |-> "undefined"]

NoLoc == [newId |-> NoId, serviceId |-> NoId, sum |-> 0, count |-> 0,
          counted |-> {}, total |-> 0, pending |-> 0, accepted |-> 0, rejected |-> 0]

\* The request of token t with the given body fields.
Request(op, t, body) ==
    [f \in DOMAIN NoReq |->
        IF f = "op" THEN op
        ELSE IF f = "userId" THEN t.userId
        ELSE IF f = "role" THEN t.role
        ELSE IF f \in DOMAIN body THEN body[f]
        ELSE NoReq[f]]

\* res.status(...).json(...): the handler ends with response r.
Respond(p, r) ==
    /\ pc' = [pc EXCEPT ![p] = "done"]
    /\ resp' = [resp EXCEPT ![p] = r]
    /\ loc' = [loc EXCEPT ![p] = NoLoc]

\* res.status(...).json(body): the handler ends with response r, whose body
\* is the local value body.
RespondWith(p, r, body) ==
    /\ pc' = [pc EXCEPT ![p] = "done"]
    /\ resp' = [resp EXCEPT ![p] = r]
    /\ loc' = [loc EXCEPT ![p] = body]

\* The handler goes on to segment l with locals lv.
Goto(p, l, lv) ==
    /\ pc' = [pc EXCEPT ![p] = l]
    /\ loc' = [loc EXCEPT ![p] = lv]
    /\ UNCHANGED resp

\* The client has its response; the slot takes the next request.
Return(p) ==
    /\ pc[p] = "done"
    /\ pc' = [pc EXCEPT ![p] = "idle"]
    /\ req' = [req EXCEPT ![p] = NoReq]
    /\ resp' = [resp EXCEPT ![p] = "none"]
    /\ loc' = [loc EXCEPT ![p] = NoLoc]
    /\ UNCHANGED store

\* A response is out as soon as the handler sends it: nothing else happens
\* between the handler's last segment and the slot's return.
AllReturned == \A q \in Procs : pc[q] # "done"

\* No handler is in flight.
NoneInFlight == \A q \in Procs : pc[q] = "idle"

\* Slot p's handler is at segment l and runs it.
At(p, l) == AllReturned /\ pc[p] = l

\* Segments of open transactions, by what the transaction holds.
TxReviewWritten == {"ur_aggregate", "ur_commit", "dr_aggregate", "dr_commit"}
TxReviewInserted == {"cr_aggregate", "cr_commit"}
TxOpen == TxReviewWritten \cup TxReviewInserted

\* Slot q's open transaction has updated or deleted review rid (row lock).
ReviewLockedBy(q, rid) == pc[q] \in TxReviewWritten /\ req[q].id = rid

\* Slot q's open transaction has written a review row that references service
\* sid (the foreign key's share lock on the service row).
ServiceSharedBy(q, sid) ==
    /\ req[q].serviceId = sid
    /\ \/ pc[q] \in TxReviewInserted
       \/ pc[q] \in {"ur_aggregate", "ur_commit"}

\* Requests that will still draw from a sequence, per table.
Reserved(labels) == Cardinality({q \in Procs : pc[q] \in labels})

----------------------------------------------------------------------------
\* service.controller.ts

\* createService: role check, category lookup.
createService_findCategory(p) ==
    /\ At(p, "idle")
    /\ nextId.service + Reserved({"cs_create"}) <= MaxServices
    /\ \E t \in tokens, c \in CategoryInputs :
        /\ req' = [req EXCEPT ![p] = Request("createService", t, [categoryId |-> c])]
        /\ IF t.role # "VENDOR" /\ t.role # "ADMIN" THEN Respond(p, "Forbidden")
           ELSE IF c \notin categories THEN Respond(p, "CategoryNotFound")
           ELSE Goto(p, "cs_create", NoLoc)
    /\ UNCHANGED store

\* createService: prisma.service.create.
createService_create(p) ==
    /\ At(p, "cs_create")
    /\ IF req[p].categoryId \in categories /\ req[p].userId \in DOMAIN users
       THEN /\ services' = services @@ (nextId.service :>
                    [vendorId |-> req[p].userId, categoryId |-> req[p].categoryId, avgRating |-> 0])
            /\ nextId' = [nextId EXCEPT !.service = @ + 1]
            /\ Respond(p, "Created")
       ELSE /\ UNCHANGED <<services, nextId>>
            /\ Respond(p, "Internal")
    /\ UNCHANGED <<users, emails, tokens, categories, negotiations, reviews, req>>

\* serviceSchema.partial() applied to a stored service: the fields a request
\* body can change (vendorId and avgRating are not fields of the schema).
updateServiceData(row, body) ==
    [row EXCEPT !.categoryId = IF body.categoryId # NoId THEN body.categoryId ELSE @]

\* updateService: role check, lookup, ownership check.
updateService_find(p) ==
    /\ At(p, "idle")
    /\ \E t \in tokens, sid \in 1..MaxServices, c \in {NoId} \cup CategoryInputs :
        /\ req' = [req EXCEPT ![p] = Request("updateService", t, [id |-> sid, categoryId |-> c])]
        /\ IF t.role # "VENDOR" /\ t.role # "ADMIN" THEN Respond(p, "Forbidden")
           ELSE IF sid \notin DOMAIN services THEN Respond(p, "NotFound")
           ELSE IF t.role # "ADMIN" /\ services[sid].vendorId # t.userId THEN Respond(p, "Forbidden")
           ELSE IF c # NoId THEN Goto(p, "us_findCategory", NoLoc)
           ELSE Goto(p, "us_update", NoLoc)
    /\ UNCHANGED store

\* updateService: category lookup when the body names one.
updateService_findCategory(p) ==
    /\ At(p, "us_findCategory")
    /\ IF req[p].categoryId \notin categories THEN Respond(p, "CategoryNotFound")
       ELSE Goto(p, "us_update", NoLoc)
    /\ UNCHANGED <<store, req>>

\* updateService: prisma.service.update.
updateService_update(p) ==
    /\ At(p, "us_update")
    /\ IF req[p].id \notin DOMAIN services
       THEN UNCHANGED services /\ Respond(p, "NotFound")
       ELSE IF req[p].categoryId # NoId /\ req[p].categoryId \notin categories
       THEN UNCHANGED services /\ Respond(p, "Internal")
       ELSE /\ services' = [services EXCEPT ![req[p].id] = updateServiceData(@, req[p])]
            /\ Respond(p, "OK")
    /\ UNCHANGED <<users, emails, tokens, categories, negotiations, reviews, nextId, req>>

\* deleteService: role check, lookup, ownership check.
deleteService_find(p) ==
    /\ At(p, "idle")
    /\ \E t \in tokens, sid \in 1..MaxServices :
        /\ req' = [req EXCEPT ![p] = Request("deleteService", t, [id |-> sid])]
        /\ IF t.role # "VENDOR" /\ t.role # "ADMIN" THEN Respond(p, "Forbidden")
           ELSE IF sid \notin DOMAIN services THEN Respond(p, "NotFound")
           ELSE IF t.role # "ADMIN" /\ services[sid].vendorId # t.userId THEN Respond(p, "Forbidden")
           ELSE Goto(p, "ds_delete", NoLoc)
    /\ UNCHANGED store

\* deleteService: prisma.service.delete; the foreign keys of negotiations and
\* reviews cascade.  The statement waits for the row locks of open transactions.
deleteService_delete(p) ==
    /\ At(p, "ds_delete")
    /\ LET sid == req[p].id IN
        /\ \A q \in Procs : ~ServiceSharedBy(q, sid)
        /\ \A q \in Procs, rid \in DOMAIN reviews :
                reviews[rid].serviceId = sid => ~ReviewLockedBy(q, rid)
        /\ IF sid \notin DOMAIN services
           THEN UNCHANGED <<services, negotiations, reviews>> /\ Respond(p, "NotFound")
           ELSE /\ services' = Without(services, sid)
                /\ negotiations' = CascadeService(negotiations, sid)
                /\ reviews' = CascadeService(reviews, sid)
                /\ Respond(p, "OK")
    /\ UNCHANGED <<users, emails, tokens, categories, nextId, req>>

----------------------------------------------------------------------------
\* category.controller.ts (in server.ts)

\* prisma.service.count({ where: { categoryId } }): the matching rows.
servicesOfCategory(cid) == {sid \in DOMAIN services : services[sid].categoryId = cid}

\* A table without the rows that reference one of the deleted services sids
\* (ON DELETE CASCADE).
CascadeServices(table, sids) ==
    [i \in {j \in DOMAIN table : table[j].serviceId \notin sids} |-> table[i]]

\* deleteCategory: role check, count of the category's services.
deleteCategory_count(p) ==
    /\ At(p, "idle")
    /\ \E t \in tokens, cid \in CategoryInputs :
        /\ req' = [req EXCEPT ![p] = Request("deleteCategory", t, [categoryId |-> cid])]
        /\ IF t.role # "ADMIN" THEN Respond(p, "Forbidden")
           ELSE IF servicesOfCategory(cid) # {} THEN Respond(p, "CategoryInUse")
           ELSE Goto(p, "dc_delete", NoLoc)
    /\ UNCHANGED store

\* deleteCategory: prisma.category.delete (P2025 when the category does not
\* exist).  services_category_id_fkey cascades to the category's services, and
\* their foreign keys to their negotiations and reviews.  The statement waits
\* for the row locks of open transactions.
deleteCategory_delete(p) ==
    /\ At(p, "dc_delete")
    /\ LET cid == req[p].categoryId
           sids == servicesOfCategory(cid)
       IN /\ \A q \in Procs, sid \in sids : ~ServiceSharedBy(q, sid)
          /\ \A q \in Procs, rid \in DOMAIN reviews :
                reviews[rid].serviceId \in sids => ~ReviewLockedBy(q, rid)
          /\ IF cid \notin categories
             THEN UNCHANGED <<categories, services, negotiations, reviews>> /\ Respond(p, "NotFound")
             ELSE /\ categories' = categories \ {cid}
                  /\ services' = [sid \in DOMAIN services \ sids |-> services[sid]]
                  /\ negotiations' = CascadeServices(negotiations, sids)
                  /\ reviews' = CascadeServices(reviews, sids)
                  /\ Respond(p, "OK")
    /\ UNCHANGED <<users, emails, tokens, nextId, req>>

----------------------------------------------------------------------------
\* negotiation.controller.ts

StatusInputs == {"ACCEPTED", "REJECTED", "PENDING"}

\* negotiationSchema that accepts an offerPrice of 0.
negotiationSchema_nonNegative(body) == body.offerPrice >= 0

\* negotiationSchema: offerPrice is a positive number.
negotiationSchema(body) == body.offerPrice > 0

\* statusUpdateSchema: status is ACCEPTED or REJECTED.
statusUpdateSchema(body) == body.status \in {"ACCEPTED", "REJECTED"}

\* isOwnService with the check left out.
isOwnService_never(service, customerId) == FALSE

\* service.vendorId === customerId
isOwnService(service, customerId) == service.vendorId = customerId

\* prisma.negotiation.findFirst({ where: { serviceId, customerId, status } }):
\* the matching rows.
findNegotiations(sid, cid, status) ==
    {n \in DOMAIN negotiations :
        /\ negotiations[n].serviceId = sid
        /\ negotiations[n].customerId = cid
        /\ negotiations[n].status = status}

\* notPending with the check left out.
notPending_never(row) == FALSE

\* notPending that lets an ACCEPTED negotiation through.
notPending_onlyRejected(row) == row.status = "REJECTED"

\* existingNegotiation.status !== 'PENDING'
notPending(row) == row.status # "PENDING"

\* notServiceVendor with the ownership check left out.
notServiceVendor_never(role, userId, vendorId) == FALSE

\* user.role !== 'ADMIN' && existingNegotiation.service.vendorId !== user.userId
notServiceVendor(role, userId, vendorId) == role # "ADMIN" /\ vendorId # userId

\* notNegotiationCustomer with the ownership check left out.
notNegotiationCustomer_never(role, userId, row) == FALSE

\* user.role !== 'ADMIN' && existingNegotiation.customerId !== user.userId
notNegotiationCustomer(role, userId, row) == role # "ADMIN" /\ row.customerId # userId

\* createNegotiation: role check, validation, service lookup, own-service check.
createNegotiation_findService(p) ==
    /\ At(p, "idle")
    /\ nextId.negotiation + Reserved({"cn_findPending", "cn_create"}) <= MaxNegotiations
    /\ \E t \in tokens, sid \in 1..MaxServices, price \in OfferInputs :
        /\ req' = [req EXCEPT ![p] =
                Request("createNegotiation", t, [serviceId |-> sid, offerPrice |-> price])]
        /\ IF t.role # "CUSTOMER" /\ t.role # "ADMIN" THEN Respond(p, "Forbidden")
           ELSE IF ~negotiationSchema([offerPrice |-> price]) THEN Respond(p, "ValidationError")
           ELSE IF sid \notin DOMAIN services THEN Respond(p, "NotFound")
           ELSE IF isOwnService(services[sid], t.userId) THEN Respond(p, "SelfNegotiation")
           ELSE Goto(p, "cn_findPending", NoLoc)
    /\ UNCHANGED store

\* createNegotiation: lookup of a pending negotiation of the pair.
createNegotiation_findPending(p) ==
    /\ At(p, "cn_findPending")
    /\ IF findNegotiations(req[p].serviceId, req[p].userId, "PENDING") # {}
       THEN Respond(p, "DuplicatePending")
       ELSE Goto(p, "cn_create", NoLoc)
    /\ UNCHANGED <<store, req>>

\* createNegotiation: prisma.negotiation.create (status defaults to PENDING).
createNegotiation_create(p) ==
    /\ At(p, "cn_create")
    /\ IF req[p].serviceId \in DOMAIN services /\ req[p].userId \in DOMAIN users
       THEN /\ negotiations' = negotiations @@ (nextId.negotiation :>
                    [serviceId |-> req[p].serviceId, customerId |-> req[p].userId,
                     offerPrice |-> req[p].offerPrice, status |-> "PENDING"])
            /\ nextId' = [nextId EXCEPT !.negotiation = @ + 1]
            /\ Respond(p, "Created")
       ELSE /\ UNCHANGED <<negotiations, nextId>>
            /\ Respond(p, "Internal")
    /\ UNCHANGED <<users, emails, tokens, categories, services, reviews, req>>

\* updateNegotiationStatus_find with the pending check ahead of the ownership
\* check.
updateNegotiationStatus_find_pendingFirst(p) ==
    /\ At(p, "idle")
    /\ \E t \in tokens, nid \in 1..MaxNegotiations, st \in StatusInputs :
        /\ req' = [req EXCEPT ![p] =
                Request("updateNegotiationStatus", t, [id |-> nid, status |-> st])]
        /\ IF t.role # "VENDOR" /\ t.role # "ADMIN" THEN Respond(p, "Forbidden")
           ELSE IF ~statusUpdateSchema([status |-> st]) THEN Respond(p, "ValidationError")
           ELSE IF nid \notin DOMAIN negotiations THEN Respond(p, "NotFound")
           ELSE IF notPending(negotiations[nid]) THEN Respond(p, "InvalidStateTransition")
           ELSE IF notServiceVendor(t.role, t.userId, services[negotiations[nid].serviceId].vendorId)
                THEN Respond(p, "Forbidden")
           ELSE Goto(p, "un_update", NoLoc)
    /\ UNCHANGED store

\* updateNegotiationStatus: role check, validation, lookup (with the service's
\* vendorId), ownership check, pending check.
updateNegotiationStatus_find(p) ==
    /\ At(p, "idle")
    /\ \E t \in tokens, nid \in 1..MaxNegotiations, st \in StatusInputs :
        /\ req' = [req EXCEPT ![p] =
                Request("updateNegotiationStatus", t, [id |-> nid, status |-> st])]
        /\ IF t.role # "VENDOR" /\ t.role # "ADMIN" THEN Respond(p, "Forbidden")
           ELSE IF ~statusUpdateSchema([status |-> st]) THEN Respond(p, "ValidationError")
           ELSE IF nid \notin DOMAIN negotiations THEN Respond(p, "NotFound")
           ELSE IF notServiceVendor(t.role, t.userId, services[negotiations[nid].serviceId].vendorId)
                THEN Respond(p, "Forbidden")
           ELSE IF notPending(negotiations[nid]) THEN Respond(p, "InvalidStateTransition")
           ELSE Goto(p, "un_update", NoLoc)
    /\ UNCHANGED store

\* updateNegotiationStatus: prisma.negotiation.update({ where: { id } }).
updateNegotiationStatus_update(p) ==
    /\ At(p, "un_update")
    /\ IF req[p].id \notin DOMAIN negotiations
       THEN UNCHANGED negotiations /\ Respond(p, "NotFound")
       ELSE /\ negotiations' = [negotiations EXCEPT ![req[p].id].status = req[p].status]
            /\ Respond(p, "OK")
    /\ UNCHANGED <<users, emails, tokens, categories, services, reviews, nextId, req>>

\* cancelNegotiation: role check, lookup, ownership check, pending check.
cancelNegotiation_find(p) ==
    /\ At(p, "idle")
    /\ \E t \in tokens, nid \in 1..MaxNegotiations :
        /\ req' = [req EXCEPT ![p] = Request("cancelNegotiation", t, [id |-> nid])]
        /\ IF t.role # "CUSTOMER" /\ t.role # "ADMIN" THEN Respond(p, "Forbidden")
           ELSE IF nid \notin DOMAIN negotiations THEN Respond(p, "NotFound")
           ELSE IF notNegotiationCustomer(t.role, t.userId, negotiations[nid])
                THEN Respond(p, "Forbidden")
           ELSE IF notPending(negotiations[nid]) THEN Respond(p, "InvalidStateTransition")
           ELSE Goto(p, "xn_delete", NoLoc)
    /\ UNCHANGED store

\* cancelNegotiation: prisma.negotiation.delete({ where: { id } }).
cancelNegotiation_delete(p) ==
    /\ At(p, "xn_delete")
    /\ IF req[p].id \notin DOMAIN negotiations
       THEN UNCHANGED negotiations /\ Respond(p, "NotFound")
       ELSE /\ negotiations' = Without(negotiations, req[p].id)
            /\ Respond(p, "OK")
    /\ UNCHANGED <<users, emails, tokens, categories, services, reviews, nextId, req>>

\* The four count queries of getNegotiationStats, by the field they fill.
StatsQueries == {"total", "pending", "accepted", "rejected"}

\* where: the negotiations the actor's statistics are about: those on the
\* services of a VENDOR, those of a CUSTOMER, all of them for an ADMIN.
statsWhere(role, userId) ==
    {n \in DOMAIN negotiations :
        \/ role = "ADMIN"
        \/ role = "VENDOR" /\ services[negotiations[n].serviceId].vendorId = userId
        \/ role = "CUSTOMER" /\ negotiations[n].customerId = userId}

\* prisma.negotiation.count({ where }) and count({ where: { ...where, status } }).
statsCount(query, where) ==
    IF query = "total" THEN Cardinality(where)
    ELSE IF query = "pending" THEN Cardinality({n \in where : negotiations[n].status = "PENDING"})
    ELSE IF query = "accepted" THEN Cardinality({n \in where : negotiations[n].status = "ACCEPTED"})
    ELSE Cardinality({n \in where : negotiations[n].status = "REJECTED"})

\* total > 0 ? Math.round((accepted / total) * 100) : 0
acceptanceRate(total, accepted) ==
    IF total > 0 THEN (200 * accepted + total) \div (2 * total) ELSE 0

\* getNegotiationStats: the filter is built and the four counts are issued
\* together (Promise.all).
getNegotiationStats_issue(p) ==
    /\ At(p, "idle")
    /\ \E t \in tokens :
        /\ req' = [req EXCEPT ![p] = Request("getNegotiationStats", t, <<>>)]
        /\ Goto(p, "gs_count", NoLoc)
    /\ UNCHANGED store

\* getNegotiationStats: one of the counts still out runs, each in a statement
\* of its own and in any order; with the last one in, the response is sent.
getNegotiationStats_count(p) ==
    /\ At(p, "gs_count")
    /\ \E query \in StatsQueries \ loc[p].counted :
        LET n == statsCount(query, statsWhere(req[p].role, req[p].userId))
            lv == [loc[p] EXCEPT !.counted = @ \cup {query},
                                 !.total = IF query = "total" THEN n ELSE @,
                                 !.pending = IF query = "pending" THEN n ELSE @,
                                 !.accepted = IF query = "accepted" THEN n ELSE @,
                                 !.rejected = IF query = "rejected" THEN n ELSE @]
        IN IF lv.counted = StatsQueries THEN RespondWith(p, "OK", lv) ELSE Goto(p, "gs_count", lv)
    /\ UNCHANGED <<store, req>>

----------------------------------------------------------------------------
\* review.controller.ts

\* reviewSchema: rating is an integer from 1 to 5.
reviewSchema(body) == body.rating >= MinRating /\ body.rating <= MaxRating

\* reviewSchema.partial(): every field is optional.
reviewSchemaPartial(body) == body.rating = NoId \/ reviewSchema(body)

\* prisma.review.findFirst({ where: { serviceId, customerId } }): the matching rows.
findReviews(sid, cid) ==
    {r \in DOMAIN reviews : reviews[r].serviceId = sid /\ reviews[r].customerId = cid}

\* ineligible with the status filter of the lookup left out.
ineligible_anyStatus(sid, cid, role) ==
    /\ \A st \in {"PENDING", "ACCEPTED", "REJECTED"} : findNegotiations(sid, cid, st) = {}
    /\ role # "ADMIN"

\* !acceptedNegotiation && user.role !== 'ADMIN'
ineligible(sid, cid, role) == findNegotiations(sid, cid, "ACCEPTED") = {} /\ role # "ADMIN"

\* validatedData.comment?.trim() || null: the comment as stored; null without
\* a comment in the body.
commentData(body) == IF body.comment \in {"undefined", ""} THEN "null" ELSE body.comment

\* data of tx.review.create.
createReviewData(body) ==
    [serviceId |-> body.serviceId, customerId |-> body.userId, rating |-> body.rating,
     comment |-> commentData(body)]

\* data: { ...validatedData } of tx.review.update applied to the stored row: the
\* fields of reviewSchema.partial() that the body gives.
updateReviewData(row, body) ==
    [row EXCEPT !.serviceId = IF body.serviceId # NoId THEN body.serviceId ELSE @,
                !.rating = IF body.rating # NoId THEN body.rating ELSE @,
                !.comment = commentData(body)]

\* ratingWasUpdated that recomputes on every update.
ratingWasUpdated_always(body) == TRUE

\* if (validatedData.rating !== undefined)
ratingWasUpdated(body) == body.rating # NoId

\* notReviewOwner with the ownership check left out.
notReviewOwner_never(role, userId, row) == FALSE

\* user.role !== 'ADMIN' && existingReview.customerId !== user.userId
notReviewOwner(role, userId, row) == role # "ADMIN" /\ row.customerId # userId

\* createReview: role check, validation, service lookup, own-service check.
createReview_findService(p) ==
    /\ At(p, "idle")
    /\ nextId.review + Reserved({"cr_findExisting", "cr_findAccepted", "cr_insert"}) <= MaxReviews
    /\ \E t \in tokens, sid \in 1..MaxServices, rating \in RatingInputs, comment \in NewCommentInputs :
        /\ req' = [req EXCEPT ![p] = Request("createReview", t,
                        [serviceId |-> sid, rating |-> rating, comment |-> comment])]
        /\ IF t.role # "CUSTOMER" /\ t.role # "ADMIN" THEN Respond(p, "Forbidden")
           ELSE IF ~reviewSchema([rating |-> rating]) THEN Respond(p, "ValidationError")
           ELSE IF sid \notin DOMAIN services THEN Respond(p, "NotFound")
           ELSE IF isOwnService(services[sid], t.userId) THEN Respond(p, "SelfReview")
           ELSE Goto(p, "cr_findExisting", NoLoc)
    /\ UNCHANGED store

\* createReview: lookup of a review of the pair.
createReview_findExisting(p) ==
    /\ At(p, "cr_findExisting")
    /\ IF findReviews(req[p].serviceId, req[p].userId) # {}
       THEN Respond(p, "DuplicateReview")
       ELSE Goto(p, "cr_findAccepted", NoLoc)
    /\ UNCHANGED <<store, req>>

\* createReview: lookup of an accepted negotiation of the pair.
createReview_findAccepted(p) ==
    /\ At(p, "cr_findAccepted")
    /\ IF ineligible(req[p].serviceId, req[p].userId, req[p].role)
       THEN Respond(p, "Ineligible")
       ELSE Goto(p, "cr_insert", NoLoc)
    /\ UNCHANGED <<store, req>>

\* createReview, in the transaction: tx.review.create.  The row draws its id
\* from the sequence; a missing service is a foreign-key violation.
createReview_insert(p) ==
    /\ At(p, "cr_insert")
    /\ nextId' = [nextId EXCEPT !.review = @ + 1]
    /\ IF req[p].serviceId \in DOMAIN services
       THEN Goto(p, "cr_aggregate", [NoLoc EXCEPT !.newId = nextId.review])
       ELSE Respond(p, "Internal")
    /\ UNCHANGED <<users, emails, tokens, categories, services, negotiations, reviews, req>>

\* createReview, in the transaction: tx.review.aggregate over the committed
\* reviews and the inserted one.
createReview_aggregate(p) ==
    /\ At(p, "cr_aggregate")
    /\ LET view == reviews @@ (loc[p].newId :> createReviewData(req[p]))
           stats == aggregate(view, req[p].serviceId)
       IN Goto(p, "cr_commit", [loc[p] EXCEPT !.sum = stats.sum, !.count = stats.count])
    /\ UNCHANGED <<store, req>>

\* createReview, in the transaction: tx.service.update, then the commit.
createReview_commit(p) ==
    /\ At(p, "cr_commit")
    /\ IF req[p].serviceId \in DOMAIN services
       THEN /\ reviews' = reviews @@ (loc[p].newId :> createReviewData(req[p]))
            /\ services' = [services EXCEPT ![req[p].serviceId].avgRating = avgRatingData(loc[p])]
            /\ RespondWith(p, "Created", loc[p])
       ELSE /\ UNCHANGED <<reviews, services>>
            /\ Respond(p, "Internal")
    /\ UNCHANGED <<users, emails, tokens, categories, negotiations, nextId, req>>

\* updateReview: role check, validation, lookup, ownership check.
updateReview_find(p) ==
    /\ At(p, "idle")
    /\ \E t \in tokens, rid \in 1..MaxReviews, rating \in {NoId} \cup RatingInputs,
          sid \in {NoId} \cup (1..MaxServices), comment \in CommentInputs :
        /\ req' = [req EXCEPT ![p] =
                Request("updateReview", t,
                        [id |-> rid, rating |-> rating, serviceId |-> sid, comment |-> comment])]
        /\ IF t.role # "CUSTOMER" /\ t.role # "ADMIN" THEN Respond(p, "Forbidden")
           ELSE IF ~reviewSchemaPartial([rating |-> rating]) THEN Respond(p, "ValidationError")
           ELSE IF rid \notin DOMAIN reviews THEN Respond(p, "NotFound")
           ELSE IF notReviewOwner(t.role, t.userId, reviews[rid]) THEN Respond(p, "Forbidden")
           ELSE Goto(p, "ur_update", [NoLoc EXCEPT !.serviceId = reviews[rid].serviceId])
    /\ UNCHANGED store

\* updateReview, in the transaction: tx.review.update.  It waits for another
\* transaction's lock on the row.  When the rating is not updated nothing else
\* follows and the transaction commits.
updateReview_update(p) ==
    /\ At(p, "ur_update")
    /\ \A q \in Procs \ {p} : ~ReviewLockedBy(q, req[p].id)
    /\ IF req[p].id \notin DOMAIN reviews
       THEN UNCHANGED reviews /\ Respond(p, "NotFound")
       ELSE IF req[p].serviceId # NoId /\ req[p].serviceId \notin DOMAIN services
       THEN UNCHANGED reviews /\ Respond(p, "Internal")
       ELSE IF ratingWasUpdated(req[p])
       THEN UNCHANGED reviews /\ Goto(p, "ur_aggregate", loc[p])
       ELSE /\ reviews' = [reviews EXCEPT ![req[p].id] = updateReviewData(@, req[p])]
            /\ Respond(p, "OK")
    /\ UNCHANGED <<users, emails, tokens, categories, services, negotiations, nextId, req>>

\* updateReview, in the transaction: tx.review.aggregate for the service the
\* review had when the handler read it.
updateReview_aggregate(p) ==
    /\ At(p, "ur_aggregate")
    /\ LET view == [reviews EXCEPT ![req[p].id] = updateReviewData(@, req[p])]
           stats == aggregate(view, loc[p].serviceId)
       IN Goto(p, "ur_commit", [loc[p] EXCEPT !.sum = stats.sum, !.count = stats.count])
    /\ UNCHANGED <<store, req>>

\* updateReview, in the transaction: tx.service.update, then the commit.  A
\* missing service row (P2025) rolls the transaction back.
updateReview_commit(p) ==
    /\ At(p, "ur_commit")
    /\ IF loc[p].serviceId \in DOMAIN services
       THEN /\ reviews' = [reviews EXCEPT ![req[p].id] = updateReviewData(@, req[p])]
            /\ services' = [services EXCEPT ![loc[p].serviceId].avgRating = avgRatingData(loc[p])]
            /\ Respond(p, "OK")
       ELSE /\ UNCHANGED <<reviews, services>>
            /\ Respond(p, "NotFound")
    /\ UNCHANGED <<users, emails, tokens, categories, negotiations, nextId, req>>

\* deleteReview: role check, lookup, ownership check.
deleteReview_find(p) ==
    /\ At(p, "idle")
    /\ \E t \in tokens, rid \in 1..MaxReviews :
        /\ req' = [req EXCEPT ![p] = Request("deleteReview", t, [id |-> rid])]
        /\ IF t.role # "CUSTOMER" /\ t.role # "ADMIN" THEN Respond(p, "Forbidden")
           ELSE IF rid \notin DOMAIN reviews THEN Respond(p, "NotFound")
           ELSE IF notReviewOwner(t.role, t.userId, reviews[rid]) THEN Respond(p, "Forbidden")
           ELSE Goto(p, "dr_delete", [NoLoc EXCEPT !.serviceId = reviews[rid].serviceId])
    /\ UNCHANGED store

\* deleteReview, in the transaction: tx.review.delete.  It waits for another
\* transaction's lock on the row.
deleteReview_delete(p) ==
    /\ At(p, "dr_delete")
    /\ \A q \in Procs \ {p} : ~ReviewLockedBy(q, req[p].id)
    /\ IF req[p].id \notin DOMAIN reviews
       THEN Respond(p, "NotFound")
       ELSE Goto(p, "dr_aggregate", loc[p])
    /\ UNCHANGED <<store, req>>

\* deleteReview, in the transaction: tx.review.aggregate without the deleted row.
deleteReview_aggregate(p) ==
    /\ At(p, "dr_aggregate")
    /\ LET stats == aggregate(Without(reviews, req[p].id), loc[p].serviceId)
       IN Goto(p, "dr_commit", [loc[p] EXCEPT !.sum = stats.sum, !.count = stats.count])
    /\ UNCHANGED <<store, req>>

\* deleteReview, in the transaction: tx.service.update, then the commit.
deleteReview_commit(p) ==
    /\ At(p, "dr_commit")
    /\ IF loc[p].serviceId \in DOMAIN services
       THEN /\ reviews' = Without(reviews, req[p].id)
            /\ services' = [services EXCEPT ![loc[p].serviceId].avgRating = avgRatingData(loc[p])]
            /\ Respond(p, "OK")
       ELSE /\ UNCHANGED <<reviews, services>>
            /\ Respond(p, "NotFound")
    /\ UNCHANGED <<users, emails, tokens, categories, negotiations, nextId, req>>

\* storeFailure without the catch block's response: the error is swallowed and
\* the request ends unanswered.
storeFailure_swallowed(p) ==
    /\ AllReturned
    /\ pc[p] # "idle"
    /\ pc' = [pc EXCEPT ![p] = "idle"]
    /\ req' = [req EXCEPT ![p] = NoReq]
    /\ loc' = [loc EXCEPT ![p] = NoLoc]
    /\ UNCHANGED <<store, resp>>

\* A store call of a handler in flight fails (connection loss, transaction
\* timeout, deadlock victim): the catch block answers 500 and an open
\* transaction is rolled back.
storeFailure(p) ==
    /\ AllReturned
    /\ pc[p] # "idle"
    /\ Respond(p, "Internal")
    /\ UNCHANGED <<store, req>>

----------------------------------------------------------------------------
\* user.controller.ts, auth.controller.ts

\* notAdmin with the check left out.
notAdmin_never(role) == FALSE

\* notAdmin that lets a VENDOR through.
notAdmin_customerOnly(role) == role = "CUSTOMER"

\* currentUser.role !== 'ADMIN'
notAdmin(role) == role # "ADMIN"

\* validRoles.includes(role)
validRoles(role) == role \in {"CUSTOMER", "VENDOR", "ADMIN"}

\* updateUserRole: role check, validation, prisma.user.update (P2025 when the
\* user does not exist).
updateUserRole(p) ==
    /\ At(p, "idle")
    /\ \E t \in tokens, uid \in 1..MaxUsers, role \in RoleInputs :
        /\ req' = [req EXCEPT ![p] = Request("updateUserRole", t, [id |-> uid, newRole |-> role])]
        /\ IF notAdmin(t.role) THEN UNCHANGED users /\ Respond(p, "Forbidden")
           ELSE IF ~validRoles(role) THEN UNCHANGED users /\ Respond(p, "ValidationError")
           ELSE IF uid \notin DOMAIN users THEN UNCHANGED users /\ Respond(p, "NotFound")
           ELSE /\ users' = [users EXCEPT ![uid] = role]
                /\ Respond(p, "OK")
    /\ UNCHANGED <<emails, tokens, categories, services, negotiations, reviews, nextId>>

\* updateProfile: validation, prisma.user.update of name, phone, city and photo
\* of the actor's own row; the role is not among the data.
updateProfile(p) ==
    /\ At(p, "idle")
    /\ \E t \in tokens, nameGiven \in BOOLEAN :
        /\ req' = [req EXCEPT ![p] = Request("updateProfile", t, <<>>)]
        /\ IF ~nameGiven THEN Respond(p, "ValidationError")
           ELSE IF t.userId \notin DOMAIN users THEN Respond(p, "Internal")
           ELSE Respond(p, "OK")
    /\ UNCHANGED store

\* getAllUsers: role check, prisma.user.findMany and count.
getAllUsers(p) ==
    /\ At(p, "idle")
    /\ \E t \in tokens :
        /\ req' = [req EXCEPT ![p] = Request("getAllUsers", t, <<>>)]
        /\ IF notAdmin(t.role) THEN Respond(p, "Forbidden") ELSE Respond(p, "OK")
    /\ UNCHANGED store

\* signupSchema: the email is well formed (the other fields are left out).
signupSchema(body) == body.email # ""

\* prisma.user.findUnique({ where: { email } }): the matching rows.
findUsersByEmail(email) == {u \in DOMAIN emails : emails[u] = email}

\* signup: validation, lookup of a user with the email.
signup_findUnique(p) ==
    /\ At(p, "idle")
    /\ Cardinality(DOMAIN users) < MaxUsers
    /\ Cardinality(tokens) < MaxTokens
    /\ \E email \in EmailInputs :
        /\ req' = [req EXCEPT ![p] = [NoReq EXCEPT !.op = "signup", !.email = email]]
        /\ IF ~signupSchema([email |-> email]) THEN Respond(p, "ValidationError")
           ELSE IF findUsersByEmail(email) # {} THEN Respond(p, "Conflict")
           ELSE Goto(p, "su_create", NoLoc)
    /\ UNCHANGED store

\* signup: hashPassword (no store call), then prisma.user.create with role
\* CUSTOMER and the token pair for it.  The unique index on email rejects a
\* second row with the email (P2002), which the catch block answers with 500.
\* users.id is SERIAL: the new id is a fresh one, here the number of users
\* plus one.
signup_create(p) ==
    /\ At(p, "su_create")
    /\ LET uid == Cardinality(DOMAIN users) + 1 IN
        IF findUsersByEmail(req[p].email) # {}
        THEN UNCHANGED <<users, emails, tokens>> /\ Respond(p, "Internal")
        ELSE /\ uid <= MaxUsers
             /\ Cardinality(tokens) < MaxTokens
             /\ users' = users @@ (uid :> "CUSTOMER")
             /\ emails' = emails @@ (uid :> req[p].email)
             /\ tokens' = tokens \cup {[userId |-> uid, role |-> "CUSTOMER"]}
             /\ Respond(p, "Created")
    /\ UNCHANGED <<categories, services, negotiations, reviews, nextId, req>>

\* login: the token pair carries the role the user has when the handler reads
\* the user; earlier tokens of the user stay valid.
login(p) ==
    /\ At(p, "idle")
    /\ \E uid \in 1..MaxUsers :
        /\ req' = [req EXCEPT ![p] = [NoReq EXCEPT !.op = "login", !.id = uid]]
        /\ IF uid \notin DOMAIN users
           THEN UNCHANGED tokens /\ Respond(p, "InvalidCredentials")
           ELSE /\ Cardinality(tokens \cup {[userId |-> uid, role |-> users[uid]]}) <= MaxTokens
                /\ tokens' = tokens \cup {[userId |-> uid, role |-> users[uid]]}
                /\ Respond(p, "OK")
    /\ UNCHANGED <<users, emails, categories, services, negotiations, reviews, nextId>>

\* The refreshToken values a request body may carry: none, a string this
\* server did not sign, or either token of a pair it issued (generateTokenPair
\* signs both with JWT_SECRET and the same payload), before or after its expiry.
PresentedTokens ==
    {[kind |-> k, expired |-> FALSE, userId |-> NoId, role |-> "none"] : k \in {"none", "forged"}}
    \cup {[kind |-> k, expired |-> e, userId |-> t.userId, role |-> t.role] :
                k \in {"access", "refresh"}, e \in BOOLEAN, t \in tokens}

\* jwt.verify(token, env.JWT_SECRET) does not throw: the token was signed with
\* the secret and has not expired.
verifyToken(token) == token.kind \in {"access", "refresh"} /\ ~token.expired

\* refresh: presence check, verifyToken, prisma.user.findUnique by the decoded
\* userId, then a new token pair with the user's role.
refresh(p) ==
    /\ At(p, "idle")
    /\ \E token \in PresentedTokens :
        /\ req' = [req EXCEPT ![p] = [NoReq EXCEPT !.op = "refresh", !.token = token.kind,
                        !.expired = token.expired, !.userId = token.userId, !.role = token.role]]
        /\ IF token.kind = "none" THEN UNCHANGED tokens /\ Respond(p, "BadRequest")
           ELSE IF ~verifyToken(token) THEN UNCHANGED tokens /\ Respond(p, "Unauthorized")
           ELSE IF token.userId \notin DOMAIN users THEN UNCHANGED tokens /\ Respond(p, "Unauthorized")
           ELSE /\ Cardinality(tokens \cup {[userId |-> token.userId, role |-> users[token.userId]]}) <= MaxTokens
                /\ tokens' = tokens \cup {[userId |-> token.userId, role |-> users[token.userId]]}
                /\ Respond(p, "OK")
    /\ UNCHANGED <<users, emails, categories, services, negotiations, reviews, nextId>>

----------------------------------------------------------------------------
\* Specifications

\* The users are in place, with one of each role and an access token each;
\* one category exists; no service, negotiation or review does.
Init ==
    /\ users = (1 :> "ADMIN") @@ (2 :> "VENDOR") @@ (3 :> "CUSTOMER")
    /\ emails = (1 :> "a@x") @@ (2 :> "v@x") @@ (3 :> "c@x")
    /\ tokens = {[userId |-> u, role |-> users[u]] : u \in DOMAIN users}
    /\ categories = {1}
    /\ services = <<>>
    /\ negotiations = <<>>
    /\ reviews = <<>>
    /\ nextId = [service |-> 1, negotiation |-> 1, review |-> 1]
    /\ pc = [p \in Procs |-> "idle"]
    /\ req = [p \in Procs |-> NoReq]
    /\ loc = [p \in Procs |-> NoLoc]
    /\ resp = [p \in Procs |-> "none"]

\* The segments of the service handlers: the first (a request arrives) and the
\* later ones.
BeginService(p) ==
    \/ createService_findCategory(p)
    \/ updateService_find(p)
    \/ deleteService_find(p)

ContinueService(p) ==
    \/ createService_create(p)
    \/ updateService_findCategory(p)
    \/ updateService_update(p)
    \/ deleteService_delete(p)

\* The segments of the negotiation handlers.
BeginNegotiation(p) ==
    \/ createNegotiation_findService(p)
    \/ updateNegotiationStatus_find(p)
    \/ cancelNegotiation_find(p)

ContinueNegotiation(p) ==
    \/ createNegotiation_findPending(p)
    \/ createNegotiation_create(p)
    \/ updateNegotiationStatus_update(p)
    \/ cancelNegotiation_delete(p)

\* The segments of the review handlers.
ContinueCreateReview(p) ==
    \/ createReview_findExisting(p)
    \/ createReview_findAccepted(p)
    \/ createReview_insert(p)
    \/ createReview_aggregate(p)
    \/ createReview_commit(p)

ContinueUpdateReview(p) ==
    \/ updateReview_update(p)
    \/ updateReview_aggregate(p)
    \/ updateReview_commit(p)

ContinueDeleteReview(p) ==
    \/ deleteReview_delete(p)
    \/ deleteReview_aggregate(p)
    \/ deleteReview_commit(p)

BeginReview(p) ==
    \/ createReview_findService(p)
    \/ updateReview_find(p)
    \/ deleteReview_find(p)

ContinueReview(p) ==
    \/ ContinueCreateReview(p)
    \/ ContinueUpdateReview(p)
    \/ ContinueDeleteReview(p)

\* All handlers, served concurrently.
Next ==
    \E p \in Procs :
        \/ BeginService(p)
        \/ BeginNegotiation(p)
        \/ BeginReview(p)
        \/ ContinueService(p)
        \/ ContinueNegotiation(p)
        \/ ContinueReview(p)
        \/ deleteCategory_count(p)
        \/ deleteCategory_delete(p)
        \/ getNegotiationStats_issue(p)
        \/ getNegotiationStats_count(p)
        \/ updateUserRole(p)
        \/ updateProfile(p)
        \/ getAllUsers(p)
        \/ signup_findUnique(p)
        \/ signup_create(p)
        \/ login(p)
        \/ refresh(p)
        \/ storeFailure(p)
        \/ Return(p)

Spec == Init /\ [][Next]_vars

\* The service and negotiation handlers, served concurrently; every store call
\* succeeds.
NegotiationNext ==
    \E p \in Procs :
        \/ BeginService(p)
        \/ BeginNegotiation(p)
        \/ ContinueService(p)
        \/ ContinueNegotiation(p)
        \/ Return(p)

NegotiationSpec == Init /\ [][NegotiationNext]_vars

\* A store the handlers lead to: the vendor's service 1, the admin's service 2,
\* and the customer's pending negotiation on service 1; review 1 was created
\* and deleted again.
ReviewInitStore ==
    /\ users = (1 :> "ADMIN") @@ (2 :> "VENDOR") @@ (3 :> "CUSTOMER")
    /\ emails = (1 :> "a@x") @@ (2 :> "v@x") @@ (3 :> "c@x")
    /\ tokens = {[userId |-> u, role |-> users[u]] : u \in DOMAIN users}
    /\ categories = {1}
    /\ services = (1 :> [vendorId |-> 2, categoryId |-> 1, avgRating |-> 0])
                   @@ (2 :> [vendorId |-> 1, categoryId |-> 1, avgRating |-> 0])
    /\ negotiations = (1 :> [serviceId |-> 1, customerId |-> 3, offerPrice |-> 100, status |-> "PENDING"])
    /\ reviews = <<>>
    /\ nextId = [service |-> 3, negotiation |-> 2, review |-> 2]

ReviewInit ==
    /\ ReviewInitStore
    /\ pc = [p \in Procs |-> "idle"]
    /\ req = [p \in Procs |-> NoReq]
    /\ loc = [p \in Procs |-> NoLoc]
    /\ resp = [p \in Procs |-> "none"]

\* The creation and deletion of reviews and the resolution of negotiations,
\* served concurrently from ReviewInit; every store call succeeds.
ReviewNext ==
    \E p \in Procs :
        \/ createReview_findService(p)
        \/ deleteReview_find(p)
        \/ updateNegotiationStatus_find(p)
        \/ ContinueCreateReview(p)
        \/ ContinueDeleteReview(p)
        \/ updateNegotiationStatus_update(p)
        \/ Return(p)

ReviewSpec == ReviewInit /\ [][ReviewNext]_vars

\* All review handlers and the resolution of negotiations, served one at a time
\* from ReviewInit: a request begins only when no other handler is in flight.
ReviewSeqNext ==
    \E p \in Procs :
        \/ NoneInFlight /\ BeginReview(p)
        \/ NoneInFlight /\ updateNegotiationStatus_find(p)
        \/ ContinueReview(p)
        \/ updateNegotiationStatus_update(p)
        \/ Return(p)

ReviewSeqSpec == ReviewInit /\ [][ReviewSeqNext]_vars

\* The deletion of services with the creation of negotiations and reviews and
\* the resolution of negotiations, served concurrently from ReviewInit; every
\* store call succeeds.
CascadeNext ==
    \E p \in Procs :
        \/ deleteService_find(p)
        \/ deleteService_delete(p)
        \/ createNegotiation_findService(p)
        \/ createNegotiation_findPending(p)
        \/ createNegotiation_create(p)
        \/ updateNegotiationStatus_find(p)
        \/ updateNegotiationStatus_update(p)
        \/ createReview_findService(p)
        \/ ContinueCreateReview(p)
        \/ Return(p)

CascadeSpec == ReviewInit /\ [][CascadeNext]_vars

\* A handler in flight takes its next step: its store call returns or fails.
Progress(p) ==
    \/ ContinueNegotiation(p)
    \/ ContinueReview(p)
    \/ storeFailure(p)

\* A store the handlers lead to: the vendor's service 1 and the admin's service
\* 2; the first negotiation was cancelled and the first review's transaction
\* was rolled back, so that one id of each sequence is left.
ResponseInit ==
    /\ users = (1 :> "ADMIN") @@ (2 :> "VENDOR") @@ (3 :> "CUSTOMER")
    /\ emails = (1 :> "a@x") @@ (2 :> "v@x") @@ (3 :> "c@x")
    /\ tokens = {[userId |-> u, role |-> users[u]] : u \in DOMAIN users}
    /\ categories = {1}
    /\ services = (1 :> [vendorId |-> 2, categoryId |-> 1, avgRating |-> 0])
                   @@ (2 :> [vendorId |-> 1, categoryId |-> 1, avgRating |-> 0])
    /\ negotiations = <<>>
    /\ reviews = <<>>
    /\ nextId = [service |-> MaxServices + 1, negotiation |-> MaxNegotiations, review |-> MaxReviews]
    /\ pc = [p \in Procs |-> "idle"]
    /\ req = [p \in Procs |-> NoReq]
    /\ loc = [p \in Procs |-> NoLoc]
    /\ resp = [p \in Procs |-> "none"]

\* The negotiation and review handlers, served one at a time from
\* ResponseInit; store calls may fail.  The event loop runs every continuation
\* whose store call has settled, and every response is delivered.
ResponseNext ==
    \E p \in Procs :
        \/ NoneInFlight /\ BeginNegotiation(p)
        \/ NoneInFlight /\ BeginReview(p)
        \/ Progress(p)
        \/ Return(p)

ResponseSpec ==
    /\ ResponseInit
    /\ [][ResponseNext]_vars
    /\ \A p \in Procs : WF_vars(Progress(p)) /\ WF_vars(Return(p))

\* The user handlers with the resolution and cancellation of negotiations,
\* served concurrently from ReviewInit; every store call succeeds.
RoleNext ==
    \E p \in Procs :
        \/ updateUserRole(p)
        \/ updateProfile(p)
        \/ getAllUsers(p)
        \/ signup_findUnique(p)
        \/ signup_create(p)
        \/ login(p)
        \/ updateNegotiationStatus_find(p)
        \/ cancelNegotiation_find(p)
        \/ updateNegotiationStatus_update(p)
        \/ cancelNegotiation_delete(p)
        \/ Return(p)

RoleSpec == ReviewInit /\ [][RoleNext]_vars

\* A store the handlers lead to: a second customer has signed up, both
\* customers hold an ACCEPTED negotiation on the vendor's service 1 and have
\* reviewed it with rating 4.
RatedInit ==
    /\ users = (1 :> "ADMIN") @@ (2 :> "VENDOR") @@ (3 :> "CUSTOMER") @@ (4 :> "CUSTOMER")
    /\ emails = (1 :> "a@x") @@ (2 :> "v@x") @@ (3 :> "c@x") @@ (4 :> "n@x")
    /\ tokens = {[userId |-> u, role |-> users[u]] : u \in DOMAIN users}
    /\ categories = {1}
    /\ services = (1 :> [vendorId |-> 2, categoryId |-> 1, avgRating |-> 400])
                   @@ (2 :> [vendorId |-> 1, categoryId |-> 1, avgRating |-> 0])
    /\ negotiations = (1 :> [serviceId |-> 1, customerId |-> 3, offerPrice |-> 100, status |-> "ACCEPTED"])
                       @@ (2 :> [serviceId |-> 1, customerId |-> 4, offerPrice |-> 100, status |-> "ACCEPTED"])
    /\ reviews = (1 :> [serviceId |-> 1, customerId |-> 3, rating |-> 4, comment |-> "null"])
                  @@ (2 :> [serviceId |-> 1, customerId |-> 4, rating |-> 4, comment |-> "fine"])
    /\ nextId = [service |-> 3, negotiation |-> 3, review |-> 3]
    /\ pc = [p \in Procs |-> "idle"]
    /\ req = [p \in Procs |-> NoReq]
    /\ loc = [p \in Procs |-> NoLoc]
    /\ resp = [p \in Procs |-> "none"]

\* The creation and deletion of reviews, served one at a time from RatedInit;
\* every store call succeeds.
RatedNext ==
    \E p \in Procs :
        \/ NoneInFlight /\ createReview_findService(p)
        \/ NoneInFlight /\ deleteReview_find(p)
        \/ ContinueCreateReview(p)
        \/ ContinueDeleteReview(p)
        \/ Return(p)

RatedSpec == RatedInit /\ [][RatedNext]_vars

\* Signups, logins and profile updates, served concurrently from ReviewInit;
\* every store call succeeds or is rejected by a constraint.
SignupNext ==
    \E p \in Procs :
        \/ signup_findUnique(p)
        \/ signup_create(p)
        \/ login(p)
        \/ updateProfile(p)
        \/ Return(p)

SignupSpec == ReviewInit /\ [][SignupNext]_vars

\* Token refreshes with logins and role changes, served concurrently from
\* ReviewInit; every store call succeeds.
RefreshNext ==
    \E p \in Procs :
        \/ refresh(p)
        \/ login(p)
        \/ updateUserRole(p)
        \/ Return(p)

RefreshSpec == ReviewInit /\ [][RefreshNext]_vars

\* The deletion of categories with the creation of services, served
\* concurrently from Init; every store call succeeds.
CategoryNext ==
    \E p \in Procs :
        \/ deleteCategory_count(p)
        \/ deleteCategory_delete(p)
        \/ createService_findCategory(p)
        \/ createService_create(p)
        \/ Return(p)

CategorySpec == Init /\ [][CategoryNext]_vars

\* The negotiation statistics with the negotiation handlers, served
\* concurrently from ReviewInit; every store call succeeds.
StatsNext ==
    \E p \in Procs :
        \/ getNegotiationStats_issue(p)
        \/ getNegotiationStats_count(p)
        \/ BeginNegotiation(p)
        \/ ContinueNegotiation(p)
        \/ Return(p)

StatsSpec == ReviewInit /\ [][StatsNext]_vars

\* The store before the first signup: no user, no token; one category.
NoAdminInit ==
    /\ users = <<>>
    /\ emails = <<>>
    /\ tokens = {}
    /\ categories = {1}
    /\ services = <<>>
    /\ negotiations = <<>>
    /\ reviews = <<>>
    /\ nextId = [service |-> 1, negotiation |-> 1, review |-> 1]
    /\ pc = [p \in Procs |-> "idle"]
    /\ req = [p \in Procs |-> NoReq]
    /\ loc = [p \in Procs |-> NoLoc]
    /\ resp = [p \in Procs |-> "none"]

\* The auth and user handlers, served concurrently from NoAdminInit; every
\* store call succeeds or is rejected by a constraint.
NoAdminNext ==
    \E p \in Procs :
        \/ signup_findUnique(p)
        \/ signup_create(p)
        \/ login(p)
        \/ refresh(p)
        \/ updateUserRole(p)
        \/ updateProfile(p)
        \/ getAllUsers(p)
        \/ Return(p)

NoAdminSpec == NoAdminInit /\ [][NoAdminNext]_vars

----------------------------------------------------------------------------
\* Properties

\* The reviews of service sid.
ReviewsOf(sid) == {r \in DOMAIN reviews : reviews[r].serviceId = sid}

RECURSIVE RatingTotal(_)
RatingTotal(rs) ==
    IF rs = {} THEN 0
    ELSE LET r == CHOOSE x \in rs : TRUE IN reviews[r].rating + RatingTotal(rs \ {r})

\* The mean rating of service sid in hundredths, rounded to the nearest
\* hundredth; 0 without reviews.  m is the mean rounded iff |100*total - m*n| <= n/2.
IsRoundedMean(m, sid) ==
    LET n == Cardinality(ReviewsOf(sid))
        total == RatingTotal(ReviewsOf(sid))
    IN IF n = 0 THEN m = 0
       ELSE /\ 2 * (100 * total - m * n) <= n
            /\ 2 * (m * n - 100 * total) <= n

AvgRatingConsistent == \A sid \in DOMAIN services : IsRoundedMean(services[sid].avgRating, sid)

\* C1: served one at a time, after every completed createReview, updateReview
\* and deleteReview each service's avgRating is the mean of the ratings of its
\* reviews rounded to 2 decimals, and 0 when it has none.
C1_AvgRatingIsMean == NoneInFlight => AvgRatingConsistent

\* C2: once concurrent createReview requests by distinct customers on one
\* service have all committed, the service's avgRating is the rounded mean of
\* the ratings of all their reviews.
C2_ConcurrentCreatesFullMean ==
    \A sid \in DOMAIN services :
        (/\ NoneInFlight
         /\ \E r1, r2 \in ReviewsOf(sid) : reviews[r1].customerId # reviews[r2].customerId)
        => IsRoundedMean(services[sid].avgRating, sid)

\* The pending negotiations of customer cid on service sid.
PendingOf(sid, cid) ==
    {n \in DOMAIN negotiations :
        /\ negotiations[n].serviceId = sid
        /\ negotiations[n].customerId = cid
        /\ negotiations[n].status = "PENDING"}

\* C3: at most one PENDING negotiation exists for any (serviceId, customerId)
\* pair, also when two createNegotiation requests for the pair interleave.
C3_OnePendingPerPair ==
    \A n1, n2 \in DOMAIN negotiations :
        (/\ negotiations[n1].serviceId = negotiations[n2].serviceId
         /\ negotiations[n1].customerId = negotiations[n2].customerId
         /\ negotiations[n1].status = "PENDING"
         /\ negotiations[n2].status = "PENDING")
        => n1 = n2

\* C4: once a negotiation's status is ACCEPTED or REJECTED it never changes
\* again, also when two updateNegotiationStatus requests on it interleave.
C4_ResolvedIsTerminal ==
    [][\A n \in DOMAIN negotiations \cap DOMAIN negotiations' :
            negotiations[n].status \in {"ACCEPTED", "REJECTED"}
            => negotiations'[n].status = negotiations[n].status]_vars

\* C5: a negotiation that is ACCEPTED or REJECTED is never removed by
\* cancelNegotiation (its row goes only with its service, by the cascade), also
\* when the cancel interleaves with an updateNegotiationStatus on it.
C5_CancelOnlyPending ==
    [][\A n \in DOMAIN negotiations \ DOMAIN negotiations' :
            negotiations[n].status # "PENDING"
            => negotiations[n].serviceId \notin DOMAIN services']_vars

\* C6: at most one review exists for any (serviceId, customerId) pair, after
\* any interleaving of createReview, updateReview and deleteReview.
C6_OneReviewPerPair ==
    \A r1, r2 \in DOMAIN reviews :
        (/\ reviews[r1].serviceId = reviews[r2].serviceId
         /\ reviews[r1].customerId = reviews[r2].customerId)
        => r1 = r2

\* The accepted negotiations of customer cid on service sid.
AcceptedOf(sid, cid) ==
    {n \in DOMAIN negotiations :
        /\ negotiations[n].serviceId = sid
        /\ negotiations[n].customerId = cid
        /\ negotiations[n].status = "ACCEPTED"}

\* Segments of createReview past the eligibility check.
PastEligibility == {"cr_insert", "cr_aggregate", "cr_commit"}

\* C7: a createReview by a non-ADMIN actor gets past the eligibility check, and
\* so can succeed, only if the actor holds an ACCEPTED negotiation on the
\* service when the check runs; without one it ends with Ineligible, and reviews
\* and services are left as they were; with one it does not end with Ineligible.
C7_ReviewNeedsAcceptedNegotiation ==
    [][\A p \in Procs :
        /\ (pc'[p] \in PastEligibility /\ pc[p] \notin PastEligibility)
            => /\ pc[p] = "cr_findAccepted"
               /\ req[p].role # "ADMIN" => AcceptedOf(req[p].serviceId, req[p].userId) # {}
        /\ (pc[p] # "done" /\ pc'[p] = "done" /\ req'[p].op = "createReview" /\ resp'[p] = "Created")
            => pc[p] = "cr_commit"
        /\ (pc[p] = "cr_findAccepted" /\ pc'[p] # pc[p] /\ req[p].role # "ADMIN"
              /\ AcceptedOf(req[p].serviceId, req[p].userId) = {})
            => /\ resp'[p] = "Ineligible"
               /\ reviews' = reviews
               /\ services' = services
        /\ (pc[p] = "cr_findAccepted" /\ AcceptedOf(req[p].serviceId, req[p].userId) # {})
            => resp'[p] # "Ineligible"]_vars

\* C7 witness: a non-ADMIN customer's createReview has succeeded.
C7_Witness ==
    \E p \in Procs :
        /\ pc[p] = "done"
        /\ req[p].op = "createReview"
        /\ req[p].role = "CUSTOMER"
        /\ resp[p] = "Created"
        /\ \E r \in DOMAIN reviews : reviews[r].customerId = req[p].userId

\* No negotiation is on a service its customer vends.
NoSelfNegotiation ==
    \A n \in DOMAIN negotiations :
        negotiations[n].serviceId \in DOMAIN services
        => services[negotiations[n].serviceId].vendorId # negotiations[n].customerId

\* C8: no negotiation ever exists whose customer is the vendor of its service;
\* a createNegotiation on a service the actor vends ends with SelfNegotiation
\* and inserts nothing.
C8_NoSelfNegotiation ==
    /\ [](NoSelfNegotiation)
    /\ [][\A p \in Procs :
            (/\ pc[p] = "idle"
             /\ req'[p].op = "createNegotiation"
             /\ req'[p].role \in {"CUSTOMER", "ADMIN"}
             /\ req'[p].offerPrice > 0
             /\ req'[p].serviceId \in DOMAIN services
             /\ services[req'[p].serviceId].vendorId = req'[p].userId)
            => /\ resp'[p] = "SelfNegotiation"
               /\ negotiations' = negotiations]_vars

\* C8 witness: a createNegotiation on the actor's own service was refused.
C8_Witness ==
    \E p \in Procs :
        /\ pc[p] = "done"
        /\ req[p].op = "createNegotiation"
        /\ resp[p] = "SelfNegotiation"
        /\ services[req[p].serviceId].vendorId = req[p].userId

\* C9: no review ever exists whose customer is the vendor of its service.
C9_NoSelfReview ==
    \A r \in DOMAIN reviews :
        reviews[r].serviceId \in DOMAIN services
        => services[reviews[r].serviceId].vendorId # reviews[r].customerId

\* C10: while customer C has a PENDING negotiation on service S a further
\* createNegotiation by C on S ends with DuplicatePending; an accept of an
\* ACCEPTED negotiation ends with InvalidStateTransition and leaves it ACCEPTED;
\* without a PENDING one (an ACCEPTED one may exist) createNegotiation goes on
\* and inserts a new PENDING record beside the existing ones.
C10_NegotiationScenario ==
    [][\A p \in Procs :
        /\ (pc[p] = "cn_findPending" /\ pc'[p] # pc[p]
              /\ PendingOf(req[p].serviceId, req[p].userId) # {})
            => /\ resp'[p] = "DuplicatePending"
               /\ negotiations' = negotiations
        /\ (/\ pc[p] = "idle"
            /\ req'[p].op = "updateNegotiationStatus"
            /\ req'[p].status = "ACCEPTED"
            /\ req'[p].id \in DOMAIN negotiations
            /\ negotiations[req'[p].id].status = "ACCEPTED"
            /\ \/ req'[p].role = "ADMIN"
               \/ /\ req'[p].role = "VENDOR"
                  /\ services[negotiations[req'[p].id].serviceId].vendorId = req'[p].userId)
            => /\ resp'[p] = "InvalidStateTransition"
               /\ negotiations' = negotiations
        /\ (pc[p] = "cn_findPending" /\ pc'[p] # pc[p]
              /\ PendingOf(req[p].serviceId, req[p].userId) = {})
            => pc'[p] = "cn_create"
        /\ (pc[p] = "cn_create" /\ pc'[p] # pc[p] /\ req[p].serviceId \in DOMAIN services)
            => /\ resp'[p] = "Created"
               /\ \E n \in DOMAIN negotiations' \ DOMAIN negotiations :
                    /\ DOMAIN negotiations' = DOMAIN negotiations \cup {n}
                    /\ negotiations'[n].serviceId = req[p].serviceId
                    /\ negotiations'[n].customerId = req[p].userId
                    /\ negotiations'[n].status = "PENDING"
                    /\ \A m \in DOMAIN negotiations : negotiations'[m] = negotiations[m]]_vars

\* C10 witness: a createNegotiation has succeeded for a pair that has an
\* ACCEPTED negotiation, and its PENDING record stands beside the ACCEPTED one.
C10_Witness ==
    \E p \in Procs :
        /\ pc[p] = "done"
        /\ req[p].op = "createNegotiation"
        /\ resp[p] = "Created"
        /\ AcceptedOf(req[p].serviceId, req[p].userId) # {}
        /\ PendingOf(req[p].serviceId, req[p].userId) # {}

\* The ratings total and the number of the reviews of service sid in a reviews
\* table.
RECURSIVE TotalIn(_, _)
TotalIn(table, ids) ==
    IF ids = {} THEN 0
    ELSE LET r == CHOOSE x \in ids : TRUE IN table[r].rating + TotalIn(table, ids \ {r})

OnService(table, sid) == {r \in DOMAIN table : table[r].serviceId = sid}

\* avg (hundredths) is the mean of the ratings of the n reviews of sid in
\* table, to two decimals.
IsMeanIn(avg, table, sid) ==
    LET n == Cardinality(OnService(table, sid))
        total == TotalIn(table, OnService(table, sid))
    IN IF n = 0 THEN avg = 0
       ELSE 2 * n * avg <= 200 * total + n /\ 200 * total + n < 2 * n * (avg + 1)

\* The reviews of sid in table are exactly n, with exactly the given ratings.
RatedIn(table, sid, n, ratings) ==
    /\ Cardinality(OnService(table, sid)) = n
    /\ {table[r].rating : r \in OnService(table, sid)} = ratings

\* C11: served one at a time, a createReview that succeeds leaves the service's
\* avgRating at the mean of its reviews, the new one included, and reports their
\* number as totalReviews (rating 4 alone: 4.00 and 1; ratings 4 and 2: 3.00 and
\* 2); a deleteReview that succeeds leaves avgRating at the mean of the
\* remaining reviews (rating 2 remaining: 2.00).
C11_RatingScenario ==
    [][\A p \in Procs :
        /\ (pc[p] = "cr_commit" /\ resp'[p] = "Created")
            => LET sid == req[p].serviceId IN
               /\ IsMeanIn(services'[sid].avgRating, reviews', sid)
               /\ loc[p].count = Cardinality(OnService(reviews', sid))
               /\ Cardinality(OnService(reviews', sid)) = Cardinality(OnService(reviews, sid)) + 1
               /\ RatedIn(reviews', sid, 1, {4})
                    => services'[sid].avgRating = 400 /\ loc[p].count = 1
               /\ RatedIn(reviews', sid, 2, {2, 4})
                    => services'[sid].avgRating = 300 /\ loc[p].count = 2
        /\ (pc[p] = "dr_commit" /\ resp'[p] = "OK")
            => LET sid == loc[p].serviceId IN
               /\ IsMeanIn(services'[sid].avgRating, reviews', sid)
               /\ req[p].id \notin DOMAIN reviews'
               /\ RatedIn(reviews', sid, 1, {2})
                    => services'[sid].avgRating = 200]_vars

\* C11 witness: a customer's deleteReview has succeeded and the one review that
\* remains on the service, by another customer and with rating 2, gives 2.00.
C11_Witness ==
    \E p \in Procs, r \in DOMAIN reviews :
        /\ pc[p] = "done"
        /\ req[p].op = "deleteReview"
        /\ resp[p] = "OK"
        /\ req[p].id \notin DOMAIN reviews
        /\ OnService(reviews, reviews[r].serviceId) = {r}
        /\ reviews[r].rating = 2
        /\ reviews[r].customerId # req[p].userId
        /\ services[reviews[r].serviceId].avgRating = 200

\* A updateNegotiationStatus request with a valid body arrives in slot p for a
\* negotiation that exists.
ResolveArrives(p) ==
    /\ pc[p] = "idle"
    /\ req'[p].op = "updateNegotiationStatus"
    /\ req'[p].status \in {"ACCEPTED", "REJECTED"}
    /\ req'[p].id \in DOMAIN negotiations

\* The vendor of the service of negotiation nid.
VendorOf(nid) == services[negotiations[nid].serviceId].vendorId

\* C12 as stated: a resolve on an existing negotiation passes the authorization
\* check exactly when the actor's role is ADMIN or the actor is the vendor of
\* the negotiation's service, whatever the actor's role; any other actor gets
\* Forbidden and the negotiations are left as they were.
C12_ResolveAuthorization ==
    [][\A p \in Procs :
        ResolveArrives(p) =>
            LET authorized == req'[p].role = "ADMIN" \/ req'[p].userId = VendorOf(req'[p].id)
            IN /\ authorized => resp'[p] # "Forbidden"
               /\ ~authorized => (resp'[p] = "Forbidden" /\ negotiations' = negotiations)]_vars

\* C12 amended: a resolve on an existing negotiation passes the authorization
\* check exactly when the actor's role is ADMIN, or the actor's role is VENDOR
\* and the actor is the vendor of the negotiation's service; any other actor
\* gets Forbidden and the negotiations are left as they were.
C12_ResolveAuthorizationByRole ==
    [][\A p \in Procs :
        ResolveArrives(p) =>
            LET authorized == \/ req'[p].role = "ADMIN"
                              \/ /\ req'[p].role = "VENDOR"
                                 /\ req'[p].userId = VendorOf(req'[p].id)
            IN /\ authorized => resp'[p] # "Forbidden"
               /\ ~authorized => (resp'[p] = "Forbidden" /\ negotiations' = negotiations)]_vars

\* C12 witness: the vendor of the service, holding a token with role CUSTOMER,
\* was refused the resolution of a negotiation on it.
C12_Witness ==
    \E p \in Procs :
        /\ pc[p] = "done"
        /\ req[p].op = "updateNegotiationStatus"
        /\ req[p].status \in {"ACCEPTED", "REJECTED"}
        /\ req[p].id \in DOMAIN negotiations
        /\ req[p].role = "CUSTOMER"
        /\ req[p].userId = VendorOf(req[p].id)
        /\ resp[p] = "Forbidden"

\* A cancelNegotiation request arrives in slot p for a negotiation that exists.
CancelArrives(p) ==
    /\ pc[p] = "idle"
    /\ req'[p].op = "cancelNegotiation"
    /\ req'[p].id \in DOMAIN negotiations

\* C13 as stated: a cancel on an existing negotiation passes the authorization
\* check exactly when the actor's role is ADMIN or the actor is the
\* negotiation's customer, whatever the actor's role; any other actor gets
\* Forbidden and the negotiation is not deleted.
C13_CancelAuthorization ==
    [][\A p \in Procs :
        CancelArrives(p) =>
            LET authorized == \/ req'[p].role = "ADMIN"
                              \/ req'[p].userId = negotiations[req'[p].id].customerId
            IN /\ authorized => resp'[p] # "Forbidden"
               /\ ~authorized => (resp'[p] = "Forbidden" /\ negotiations' = negotiations)]_vars

\* C13 amended: a cancel on an existing negotiation passes the authorization
\* check exactly when the actor's role is ADMIN, or the actor's role is CUSTOMER
\* and the actor is the negotiation's customer; any other actor gets Forbidden
\* and the negotiation is not deleted.
C13_CancelAuthorizationByRole ==
    [][\A p \in Procs :
        CancelArrives(p) =>
            LET authorized == \/ req'[p].role = "ADMIN"
                              \/ /\ req'[p].role = "CUSTOMER"
                                 /\ req'[p].userId = negotiations[req'[p].id].customerId
            IN /\ authorized => resp'[p] # "Forbidden"
               /\ ~authorized => (resp'[p] = "Forbidden" /\ negotiations' = negotiations)]_vars

\* C13 witness: the negotiation's customer, holding a token with role VENDOR,
\* was refused its cancellation.
C13_Witness ==
    \E p \in Procs :
        /\ pc[p] = "done"
        /\ req[p].op = "cancelNegotiation"
        /\ req[p].id \in DOMAIN negotiations
        /\ req[p].role = "VENDOR"
        /\ req[p].userId = negotiations[req[p].id].customerId
        /\ resp[p] = "Forbidden"

\* C14: a resolve, with either target status, of a negotiation stored as
\* ACCEPTED or REJECTED by an actor who passes the authorization check ends with
\* InvalidStateTransition and leaves the negotiations as they were.
C14_ResolvedRejectsResolve ==
    [][\A p \in Procs :
        (/\ ResolveArrives(p)
         /\ negotiations[req'[p].id].status \in {"ACCEPTED", "REJECTED"}
         /\ \/ req'[p].role = "ADMIN"
            \/ /\ req'[p].role = "VENDOR"
               /\ req'[p].userId = VendorOf(req'[p].id))
        => /\ resp'[p] = "InvalidStateTransition"
           /\ negotiations' = negotiations]_vars

\* C14 witness: a resolve to REJECTED of an ACCEPTED negotiation was refused.
C14_Witness ==
    \E p \in Procs :
        /\ pc[p] = "done"
        /\ req[p].op = "updateNegotiationStatus"
        /\ req[p].status = "REJECTED"
        /\ req[p].id \in DOMAIN negotiations
        /\ negotiations[req[p].id].status = "ACCEPTED"
        /\ resp[p] = "InvalidStateTransition"

InTransaction == TxOpen \cup {"cr_insert", "ur_update", "dr_delete"}

\* C16: every step that changes the reviews is the commit of a transaction
\* that also writes the avgRating it recomputed to the service of the review,
\* and a transaction that fails leaves the reviews and the services as they
\* were: no review mutation is visible without the matching avgRating write.
C16_ReviewAndAverageAtomic ==
    [][/\ (reviews' # reviews)
            => \E p \in Procs :
                /\ pc[p] \in {"cr_commit", "ur_commit", "dr_commit"}
                /\ pc'[p] = "done"
                /\ LET sid == IF pc[p] = "cr_commit" THEN req[p].serviceId ELSE loc[p].serviceId
                   IN services'[sid].avgRating = avgRatingData(loc[p])
       /\ \A p \in Procs :
            (pc[p] \in InTransaction /\ pc'[p] = "done" /\ resp'[p] \notin {"Created", "OK"})
            => (reviews' = reviews /\ services' = services)]_vars

\* Every negotiation and every review references a service and a customer
\* that exist.
ReferencesExist ==
    /\ \A n \in DOMAIN negotiations :
            /\ negotiations[n].serviceId \in DOMAIN services
            /\ negotiations[n].customerId \in DOMAIN users
    /\ \A r \in DOMAIN reviews :
            /\ reviews[r].serviceId \in DOMAIN services
            /\ reviews[r].customerId \in DOMAIN users

\* C17: every negotiation and every review references a service and a customer
\* that exist; a deleteService that succeeds removes the service with all its
\* negotiations, whatever their status, and all its reviews, and leaves the
\* rows of other services as they were, also when a createNegotiation or a
\* createReview is past its lookup of the service.
C17_ReferencesExist ==
    /\ [](ReferencesExist)
    /\ [][\A p \in Procs :
            (pc[p] = "ds_delete" /\ resp'[p] = "OK")
            => LET sid == req[p].id IN
               /\ sid \in DOMAIN services
               /\ sid \notin DOMAIN services'
               /\ DOMAIN negotiations' = {n \in DOMAIN negotiations : negotiations[n].serviceId # sid}
               /\ DOMAIN reviews' = {r \in DOMAIN reviews : reviews[r].serviceId # sid}
               /\ \A n \in DOMAIN negotiations' : negotiations'[n] = negotiations[n]
               /\ \A r \in DOMAIN reviews' : reviews'[r] = reviews[r]]_vars

\* C17 witness: service 1 was deleted while a createNegotiation or createReview
\* on it was past its lookup of the service, and its negotiation went with it.
C17_Witness ==
    \E p, q \in Procs :
        /\ pc[p] = "done"
        /\ req[p].op = "deleteService"
        /\ resp[p] = "OK"
        /\ req[p].id \notin DOMAIN services
        /\ \A n \in DOMAIN negotiations : negotiations[n].serviceId # req[p].id
        /\ nextId.review > 2
        /\ pc[q] \in {"cn_findPending", "cn_create", "cr_findExisting", "cr_findAccepted", "cr_insert"}
        /\ req[q].serviceId = req[p].id

\* The request of slot p is an updateReview or a deleteReview of review r by
\* its owning customer or by an ADMIN.
OwnerOrAdminOn(p, r) ==
    /\ req[p].op \in {"updateReview", "deleteReview"}
    /\ req[p].id = r
    /\ req[p].role = "ADMIN" \/ req[p].userId = reviews[r].customerId

\* C18: an updateReview (with a valid body) or deleteReview of an existing
\* review by an actor who is neither its owning customer nor an ADMIN ends with
\* Forbidden and leaves the reviews and the services as they were; a review is
\* changed or removed, and an avgRating rewritten by an update or a delete,
\* only by a request of the review's owner or of an ADMIN.
C18_ReviewOwnerOrAdmin ==
    [][/\ \A p \in Procs :
            (/\ pc[p] = "idle"
             /\ req'[p].op \in {"updateReview", "deleteReview"}
             /\ req'[p].id \in DOMAIN reviews
             /\ req'[p].rating = NoId \/ reviewSchema(req'[p])
             /\ req'[p].role # "ADMIN"
             /\ req'[p].userId # reviews[req'[p].id].customerId)
            => /\ resp'[p] = "Forbidden"
               /\ reviews' = reviews
               /\ services' = services
       /\ \A r \in DOMAIN reviews :
            (r \notin DOMAIN reviews' \/ reviews'[r] # reviews[r])
            => \E p \in Procs : pc[p] # "idle" /\ OwnerOrAdminOn(p, r)
       /\ \A p \in Procs :
            (pc[p] \in {"ur_commit", "dr_commit"} /\ services' # services)
            => (req[p].id \in DOMAIN reviews /\ OwnerOrAdminOn(p, req[p].id))]_vars

\* C18 witness: a customer's deleteReview of another customer's review was
\* refused.
C18_Witness ==
    \E p \in Procs :
        /\ pc[p] = "done"
        /\ req[p].op = "deleteReview"
        /\ req[p].role = "CUSTOMER"
        /\ req[p].id \in DOMAIN reviews
        /\ reviews[req[p].id].customerId # req[p].userId
        /\ resp[p] = "Forbidden"

\* C19: a user's role changes only in an updateUserRole by an actor whose token
\* carries role ADMIN, to the role the request names; an updateUserRole or getAllUsers by an
\* actor with another role ends with Forbidden (403, Admin role required) and
\* leaves every user's role as it was; a user is added only by signup, with
\* role CUSTOMER.
C19_RoleOnlyByAdmin ==
    [][/\ \A u \in DOMAIN users :
            /\ u \in DOMAIN users'
            /\ users'[u] # users[u]
                => \E p \in Procs :
                    /\ pc[p] = "idle"
                    /\ req'[p].op = "updateUserRole"
                    /\ req'[p].role = "ADMIN"
                    /\ req'[p].id = u
                    /\ req'[p].newRole = users'[u]
                    /\ resp'[p] = "OK"
       /\ \A p \in Procs :
            (/\ pc[p] = "idle"
             /\ req'[p].op \in {"updateUserRole", "getAllUsers"}
             /\ req'[p].role # "ADMIN")
            => (resp'[p] = "Forbidden" /\ users' = users)
       /\ \A u \in DOMAIN users' \ DOMAIN users :
            /\ users'[u] = "CUSTOMER"
            /\ \E p \in Procs : pc[p] = "su_create" /\ req[p].op = "signup" /\ resp'[p] = "Created"]_vars

\* C19 witness: an updateUserRole by a signed-up user, whose token has role
\* CUSTOMER, was refused, after an ADMIN had changed a role.
C19_Witness ==
    \E p \in Procs :
        /\ pc[p] = "done"
        /\ req[p].op = "updateUserRole"
        /\ req[p].role = "CUSTOMER"
        /\ req[p].userId > 3
        /\ resp[p] = "Forbidden"
        /\ users[2] # "VENDOR"

\* C20: every negotiation and review request in flight leads to a response;
\* the response is set once, when the handler ends, and is a success or an
\* error of the taxonomy; a handler ends only by responding; a step that fails
\* ends the handler and changes no table, and a handler that has responded
\* does nothing more.
C20_EveryRequestAnswered ==
    /\ \A p \in Procs : (pc[p] \notin {"idle", "done"}) ~> (pc[p] = "done")
    /\ [](\A p \in Procs :
            pc[p] = "done"
            => resp[p] \in {"Created", "OK", "ValidationError", "NotFound", "Forbidden",
                            "DuplicatePending", "DuplicateReview", "SelfNegotiation",
                            "SelfReview", "InvalidStateTransition", "Ineligible", "Internal"})
    /\ [][\A p \in Procs :
            /\ resp'[p] # resp[p]
                => \/ resp[p] = "none" /\ pc[p] # "done" /\ pc'[p] = "done"
                   \/ pc[p] = "done" /\ pc'[p] = "idle" /\ resp'[p] = "none"
            /\ (pc'[p] = "done") = (resp'[p] # "none")
            /\ pc[p] \notin {"idle", "done"} => pc'[p] # "idle"
            /\ pc[p] = "done" => (pc'[p] = "idle" /\ store' = store)
            /\ (pc[p] # "done" /\ resp'[p] \notin {"none", "Created", "OK"})
                => /\ pc'[p] = "done"
                   /\ <<services, negotiations, reviews>>' = <<services, negotiations, reviews>>]_vars

\* C20 witness: a store call of a transaction has failed and the request was
\* answered with Internal.
C20_Witness ==
    \E p \in Procs :
        /\ pc[p] = "done"
        /\ req[p].op \in {"createReview", "updateReview", "deleteReview"}
        /\ resp[p] = "Internal"
        /\ reviews # <<>>

\* C21: a createReview that has succeeded has answered with the avgRating that
\* it stored on the service and with the number of the service's reviews, the
\* new one included, as totalReviews.
C21_ResponseMatchesStore ==
    \A p \in Procs :
        (pc[p] = "done" /\ req[p].op = "createReview" /\ resp[p] = "Created")
        => LET sid == req[p].serviceId
               body == avgRatingBody(loc[p])
           IN /\ 100 * body.num = services[sid].avgRating * body.den
              /\ loc[p].count = Cardinality(ReviewsOf(sid))

\* C22: no two users share an email; a signup that ends while its email
\* belongs to a user ends with Conflict (409) and adds no user, also when
\* another signup for the email has run since its lookup.
C22_SignupConflict ==
    /\ [](\A u, v \in DOMAIN emails : emails[u] = emails[v] => u = v)
    /\ [][\A p \in Procs :
            (/\ pc[p] # "done"
             /\ pc'[p] = "done"
             /\ req'[p].op = "signup"
             /\ findUsersByEmail(req'[p].email) # {})
            => /\ resp'[p] = "Conflict"
               /\ users' = users
               /\ emails' = emails]_vars

\* C23: a refresh request is answered with a new token pair only if it
\* presents an unexpired refresh token of an existing user; with anything else
\* (no token, a forged or expired one, an access token) it is answered with
\* 400 or 401 and no token is issued.
C23_RefreshOnlyByRefreshToken ==
    [][\A p \in Procs :
        (pc[p] = "idle" /\ req'[p].op = "refresh")
        => \/ /\ req'[p].token = "refresh"
              /\ ~req'[p].expired
              /\ req'[p].userId \in DOMAIN users
           \/ /\ resp'[p] \in {"BadRequest", "Unauthorized"}
              /\ tokens' = tokens]_vars

C25_ResolveCheckOrder ==
    [][\A p \in Procs :
        (/\ pc[p] = "idle"
         /\ req'[p].op = "updateNegotiationStatus"
         /\ statusUpdateSchema(req'[p]))
        => /\ req'[p].id \notin DOMAIN negotiations => resp'[p] = "NotFound"
           /\ (/\ req'[p].id \in DOMAIN negotiations
               /\ negotiations[req'[p].id].status # "PENDING"
               /\ req'[p].role # "ADMIN"
               /\ VendorOf(req'[p].id) # req'[p].userId)
              => resp'[p] = "Forbidden"]_vars

\* C25, with the role check that comes first: a resolve by an actor whose role
\* is neither VENDOR nor ADMIN ends with Forbidden, also when the negotiation
\* does not exist; a resolve by a VENDOR or ADMIN of a negotiation that does
\* not exist ends with NotFound; and a resolve of an existing negotiation that
\* is not PENDING by an actor who is neither ADMIN nor the service's vendor
\* ends with Forbidden, not with InvalidStateTransition.
C25_ResolveCheckOrderByRole ==
    [][\A p \in Procs :
        (/\ pc[p] = "idle"
         /\ req'[p].op = "updateNegotiationStatus"
         /\ statusUpdateSchema(req'[p]))
        => /\ req'[p].role \notin {"VENDOR", "ADMIN"} => resp'[p] = "Forbidden"
           /\ (req'[p].role \in {"VENDOR", "ADMIN"} /\ req'[p].id \notin DOMAIN negotiations)
              => resp'[p] = "NotFound"
           /\ (/\ req'[p].id \in DOMAIN negotiations
               /\ negotiations[req'[p].id].status # "PENDING"
               /\ req'[p].role # "ADMIN"
               /\ VendorOf(req'[p].id) # req'[p].userId)
              => resp'[p] = "Forbidden"]_vars

\* C25 witness: a VENDOR who is not the service's vendor has tried to resolve
\* a negotiation that is not PENDING and was refused.
C25_Witness ==
    \E p \in Procs :
        /\ pc[p] = "done"
        /\ req[p].op = "updateNegotiationStatus"
        /\ req[p].role = "VENDOR"
        /\ req[p].id \in DOMAIN negotiations
        /\ negotiations[req[p].id].status # "PENDING"
        /\ VendorOf(req[p].id) # req[p].userId
        /\ resp[p] = "Forbidden"

\* C26: a review keeps the serviceId and the customerId it was created with:
\* no step, of updateReview in particular, changes either of them.
C26_ReviewKeepsServiceAndCustomer ==
    [][\A r \in DOMAIN reviews \cap DOMAIN reviews' :
            /\ reviews'[r].serviceId = reviews[r].serviceId
            /\ reviews'[r].customerId = reviews[r].customerId]_vars

\* C27: an updateReview that succeeds leaves a field its body omits as it was
\* stored: without a comment in the body the review keeps its comment, and
\* without a rating its rating.
C27_OmittedFieldKept ==
    [][\A p \in Procs :
        (/\ req[p].op = "updateReview"
         /\ pc[p] # "done"
         /\ resp'[p] = "OK")
        => /\ req[p].comment = "undefined"
                => reviews'[req[p].id].comment = reviews[req[p].id].comment
           /\ req[p].rating = NoId
                => reviews'[req[p].id].rating = reviews[req[p].id].rating]_vars

\* C28: deleteCategory removes no service; an ADMIN's deleteCategory of a
\* category that a service references ends with 400 and leaves categories and
\* services as they were, and a deleteCategory that succeeds has removed a
\* category that no service referenced, also when a createService ran between
\* its count and its delete.
C28_DeleteCategoryKeepsServices ==
    [][\A p \in Procs :
        /\ (pc[p] = "idle" /\ req'[p].op = "deleteCategory" /\ req'[p].role = "ADMIN"
              /\ servicesOfCategory(req'[p].categoryId) # {})
            => /\ resp'[p] = "CategoryInUse"
               /\ categories' = categories
               /\ services' = services
        /\ (pc[p] = "dc_delete" /\ pc'[p] = "done")
            => /\ services' = services
               /\ resp'[p] = "OK" => servicesOfCategory(req[p].categoryId) = {}]_vars

\* C29: in every getNegotiationStats response total is the sum of pending,
\* accepted and rejected, and acceptanceRate is from 0 to 100.
C29_StatsAddUp ==
    \A p \in Procs :
        (pc[p] = "done" /\ req[p].op = "getNegotiationStats" /\ resp[p] = "OK")
        => /\ loc[p].total = loc[p].pending + loc[p].accepted + loc[p].rejected
           /\ acceptanceRate(loc[p].total, loc[p].accepted) >= 0
           /\ acceptanceRate(loc[p].total, loc[p].accepted) <= 100

\* C30: from a store without an ADMIN, whatever requests are served (signup,
\* login, refresh, updateUserRole, updateProfile), every user has role
\* CUSTOMER, and so has every token issued.
C30_NoAdminNoOtherRole ==
    /\ \A u \in DOMAIN users : users[u] = "CUSTOMER"
    /\ \A t \in tokens : t.role = "CUSTOMER"

\* C30 witness: a signed-up user has asked for the ADMIN role for themselves
\* with updateUserRole and was refused.
C30_Witness ==
    \E p \in Procs :
        /\ pc[p] = "done"
        /\ req[p].op = "updateUserRole"
        /\ req[p].id = req[p].userId
        /\ req[p].newRole = "ADMIN"
        /\ resp[p] = "Forbidden"
        /\ users[req[p].userId] = "CUSTOMER"
====
